---------------------------- MODULE Spec2Model ----------------------------
(* A model of examples/metrics.py: MetricCollector.run and the operations  *)
(* it sequences (process_repo, add_time_to_resolve, aggregate, summarize,  *)
(* output_google_sheet, get_series_for_datadog).                           *)
(*                                                                         *)
(* Dates are whole days.  A metric value is a record [kind, v]: kind is    *)
(* "list" for a Python list of numbers and "scalar" for a single number    *)
(* (v is then a one-element sequence), so that isinstance(value, list)     *)
(* can be decided.  A non-integral mean or median is the reduced fraction  *)
(* [num, den].  A Python dict is a function over its keys; the order of    *)
(* its keys is kept only where the code's result depends on it.            *)
EXTENDS Integers, Sequences, FiniteSets, TLC

VARIABLES
    repos,            \* run_options['repos']
    window,           \* start_date, end_date, reporting_period of the run, and today
    fetched,          \* get_repo_issues(org, repo), as Issue() presents each
    pc,               \* position of run(), or the exception that left it
    i,                \* index of the loop of run() that is in progress
    tree,             \* self.metrics, below the organisation level
    untagged_issues,  \* self.untagged_issues
    printed,          \* the urls printed under 'These issues need a "type" label:'
    all_metrics,      \* self.all_metrics
    sheet,            \* what output_google_sheet sent to the spreadsheet
    datadog,          \* what run() submitted to Datadog
    trace             \* the calls run() has completed, in order

vars == <<repos, window, fetched, pc, i, tree, untagged_issues,
          printed, all_metrics, sheet, datadog, trace>>

-----------------------------------------------------------------------------
(* Bounds of the model *)

MaxIssues == 2      \* issues returned for one repository
MaxDate == 3        \* created_at and event dates range over 0..MaxDate
MaxVal == 2         \* a single observation ranges over 1..MaxVal
MaxObs == 2         \* observations in one list of an issue

(* Program constants *)

STALE_DAYS == 365
DAILY == "daily"
WEEKLY == "weekly"
GOOGLE_SHEET_NAME_DAILY == "Daily"
GOOGLE_SHEET_NAME_WEEKLY == "Weekly"
DATADOG_METRICS == <<
    <<"issue_count", "count">>, <<"time_to_contact", "mean">>,
    <<"time_to_contact_pr", "mean">>, <<"time_to_close", "mean">> >>
ADMINS == {"admin"}

-----------------------------------------------------------------------------
(* Python built-ins *)

RECURSIVE sum(_)
sum(s) == IF s = <<>> THEN 0 ELSE Head(s) + sum(Tail(s))

RECURSIVE min(_)
min(s) ==
    IF Len(s) = 1 THEN s[1]
    ELSE LET m == min(Tail(s)) IN IF s[1] <= m THEN s[1] ELSE m

RECURSIVE max(_)
max(s) ==
    IF Len(s) = 1 THEN s[1]
    ELSE LET m == max(Tail(s)) IN IF s[1] >= m THEN s[1] ELSE m

RECURSIVE insert(_, _)
insert(x, s) ==
    IF s = <<>> THEN <<x>>
    ELSE IF x < Head(s) THEN <<x>> \o s
    ELSE <<Head(s)>> \o insert(x, Tail(s))

RECURSIVE sorted(_)
sorted(s) == IF s = <<>> THEN <<>> ELSE insert(Head(s), sorted(Tail(s)))

RECURSIVE gcd(_, _)
gcd(a, b) == IF b = 0 THEN a ELSE gcd(b, a % b)

\* n/d as a number: the reduced fraction
Ratio(n, d) == LET g == gcd(n, d) IN [num |-> n \div g, den |-> d \div g]

mean(s) == Ratio(sum(s), Len(s))

median(s) ==
    LET d == sorted(s)
        n == Len(d)
    IN  IF n % 2 = 1 THEN Ratio(d[(n \div 2) + 1], 1)
        ELSE Ratio(d[n \div 2] + d[(n \div 2) + 1], 2)

\* dict operations
Put(m, k, v) == [x \in (DOMAIN m) \cup {k} |-> IF x = k THEN v ELSE m[x]]
Pop(m, k) == [x \in (DOMAIN m) \ {k} |-> m[x]]
EmptyDict == [x \in {} |-> 0]

List(s) == [kind |-> "list", v |-> s]
Scalar(n) == [kind |-> "scalar", v |-> <<n>>]

-----------------------------------------------------------------------------
(* common.issue: what process_repo reads of an Issue *)

\* get_delta_days(a, b): the days from a to b
get_delta_days(a, b) == b - a

\* '/pull/' in issue.url
IsPullUrl(url) == url.kind = "pull"

-----------------------------------------------------------------------------
(* MetricCollector.add_time_to_resolve *)

\* ResolveStep with time_to_respond left out of the sum
ResolveStepNoRespond(r, first_admin_comment, ext) ==
    IF r.raised THEN r
    ELSE IF ("time_to_close" \o ext) \in DOMAIN r.metrics /\ first_admin_comment THEN
        IF ("time_to_contact" \o ext) \notin DOMAIN r.metrics
        THEN [r EXCEPT !.raised = TRUE]
        ELSE LET contact == r.metrics["time_to_contact" \o ext].v
                 close == r.metrics["time_to_close" \o ext].v
             IN  [r EXCEPT !.metrics =
                     Put(r.metrics, "time_to_resolve", Scalar(sum(contact) + sum(close)))]
    ELSE r

\* One iteration of the loop over {'', '_pr'}; KeyError when time_to_contact
\* is absent.
ResolveStep(r, first_admin_comment, ext) ==
    IF r.raised THEN r
    ELSE IF ("time_to_close" \o ext) \in DOMAIN r.metrics /\ first_admin_comment THEN
        IF ("time_to_contact" \o ext) \notin DOMAIN r.metrics
        THEN [r EXCEPT !.raised = TRUE]
        ELSE LET contact == r.metrics["time_to_contact" \o ext].v
                 respond == IF ("time_to_respond" \o ext) \in DOMAIN r.metrics
                            THEN r.metrics["time_to_respond" \o ext].v
                            ELSE <<>>
                 close == r.metrics["time_to_close" \o ext].v
             IN  [r EXCEPT !.metrics =
                     Put(r.metrics, "time_to_resolve",
                         Scalar(sum(contact) + sum(respond) + sum(close)))]
    ELSE r

add_time_to_resolve(metrics, first_admin_comment, order) ==
    ResolveStep(ResolveStep([raised |-> FALSE, metrics |-> metrics],
                            first_admin_comment, order[1]),
                first_admin_comment, order[2])

-----------------------------------------------------------------------------
(* MetricCollector.process_repo *)

stale_date(now) == now - STALE_DAYS

\* Skipped without the test against the stale date
SkippedNoStale(issue, w) ==
    \/ issue.author \in ADMINS
    \/ issue.created_at > w.end_date

\* Lines 133-140: the issue is skipped
Skipped(issue, w) ==
    \/ issue.author \in ADMINS
    \/ issue.created_at > w.end_date
    \/ issue.created_at < stale_date(w.now)

\* Lines 149-157: time_to_close is removed and re-stored under the category
CloseTime(s, issue) ==
    IF "time_to_close" \in DOMAIN s.metrics THEN
        LET time_to_close == s.metrics["time_to_close"]
            popped == Pop(s.metrics, "time_to_close")
        IN  IF issue.status \notin {"duplicate", "invalid"} /\ issue.first_admin_comment
            THEN IF issue.category # ""
                 THEN [s EXCEPT !.metrics =
                          Put(popped, "time_to_close_" \o issue.category, time_to_close)]
                 ELSE [s EXCEPT !.metrics = popped,
                                !.untagged = Append(s.untagged, issue.url)]
            ELSE [s EXCEPT !.metrics = popped]
    ELSE s

\* Lines 159-165: the same for time_awaiting_resolution
AwaitingResolution(s, issue) ==
    IF "time_awaiting_resolution" \in DOMAIN s.metrics THEN
        LET resolution == s.metrics["time_awaiting_resolution"]
            popped == Pop(s.metrics, "time_awaiting_resolution")
        IN  IF issue.category # ""
            THEN [s EXCEPT !.metrics =
                     Put(popped, "time_awaiting_resolution_" \o issue.category, resolution)]
            ELSE [s EXCEPT !.metrics = popped,
                           !.untagged = Append(s.untagged, issue.url)]
    ELSE s

\* Lines 167-168
PrunePr(s, issue) ==
    IF ~issue.first_admin_comment
    THEN [s EXCEPT !.metrics = Pop(s.metrics, "time_to_close_pr")]
    ELSE s

\* Lines 144-168: the derivation of an issue created on or after start_date.
\* s is [raised, metrics, untagged].
Derive(issue, w, order, untagged) ==
    IF issue.created_at >= w.start_date THEN
        LET r == add_time_to_resolve(issue.metrics, issue.first_admin_comment, order)
            s == [raised |-> r.raised, metrics |-> r.metrics, untagged |-> untagged]
        IN  IF r.raised THEN s
            ELSE PrunePr(AwaitingResolution(CloseTime(s, issue), issue), issue)
    ELSE [raised |-> FALSE, metrics |-> issue.metrics, untagged |-> untagged]

\* Lines 172-178
LastUpdate(issue) ==
    IF issue.events # <<>> THEN
        LET last == issue.events[Len(issue.events)]
        IN  IF "createdAt" \in DOMAIN last THEN last.createdAt
            ELSE last.commit.committedDate
    ELSE issue.created_at

\* OpenItem without the test of issue.closed
OpenItemIgnoringClosed(st, issue, w, m) ==
    IF LastUpdate(issue) > stale_date(w.now) THEN
        LET time_open == get_delta_days(issue.created_at, w.end_date)
        IN  IF IsPullUrl(issue.url)
            THEN [st EXCEPT !.pr_count = st.pr_count + 1,
                            !.nodes = Put(st.nodes, issue.url,
                                Put(Put(m, "pr_count", Scalar(st.pr_count + 1)),
                                    "time_open_pr", Scalar(time_open)))]
            ELSE [st EXCEPT !.issue_count = st.issue_count + 1,
                            !.nodes = Put(st.nodes, issue.url,
                                Put(Put(m, "issue_count", Scalar(st.issue_count + 1)),
                                    "time_open_issue", Scalar(time_open)))]
    ELSE [st EXCEPT !.nodes = Put(st.nodes, issue.url, m)]

\* Lines 180-189: st is the state of the loop, m the metrics of the node
OpenItem(st, issue, w, m) ==
    IF ~issue.closed /\ LastUpdate(issue) > stale_date(w.now) THEN
        LET time_open == get_delta_days(issue.created_at, w.end_date)
        IN  IF IsPullUrl(issue.url)
            THEN [st EXCEPT !.pr_count = st.pr_count + 1,
                            !.nodes = Put(st.nodes, issue.url,
                                Put(Put(m, "pr_count", Scalar(st.pr_count + 1)),
                                    "time_open_pr", Scalar(time_open)))]
            ELSE [st EXCEPT !.issue_count = st.issue_count + 1,
                            !.nodes = Put(st.nodes, issue.url,
                                Put(Put(m, "issue_count", Scalar(st.issue_count + 1)),
                                    "time_open_issue", Scalar(time_open)))]
    ELSE [st EXCEPT !.nodes = Put(st.nodes, issue.url, m)]

\* One iteration of the loop of lines 130-189.
\* st is [nodes, untagged, issue_count, pr_count, raised].
ProcessIssue(st, issue, w, order) ==
    IF st.raised \/ Skipped(issue, w) THEN st
    ELSE LET d == Derive(issue, w, order, st.untagged)
         IN  IF d.raised THEN [st EXCEPT !.raised = TRUE]
             ELSE OpenItem([st EXCEPT !.untagged = d.untagged], issue, w, d.metrics)

RECURSIVE ProcessIssues(_, _, _, _)
ProcessIssues(st, issues, w, order) ==
    IF issues = <<>> THEN st
    ELSE ProcessIssues(ProcessIssue(st, Head(issues), w, order), Tail(issues), w, order)

process_repo(nodes, untagged, issues, w, order) ==
    ProcessIssues([nodes |-> nodes, untagged |-> untagged,
                   issue_count |-> 0, pr_count |-> 0, raised |-> FALSE],
                  issues, w, order)


-----------------------------------------------------------------------------
(* MetricCollector.aggregate *)

\* The children of a node in the order of the dict: the order of insertion,
\* which is the order of the issue numbers
RECURSIVE Children(_)
Children(urls) ==
    IF urls = {} THEN <<>>
    ELSE LET u == CHOOSE x \in urls : \A y \in urls : x.number <= y.number
         IN  <<u>> \o Children(urls \ {u})

\* Lines 208-212: the observations a child's value stands for.  The children
\* of a repository node are issue nodes, whose values are never dicts.
Observations(value) == value.v

\* Lines 203-214: metrics[metric_id] after the loop over the children
RECURSIVE Gather(_, _, _)
Gather(nodes, urls, metric_id) ==
    IF urls = <<>> THEN <<>>
    ELSE (IF metric_id \in DOMAIN nodes[Head(urls)]
          THEN Observations(nodes[Head(urls)][metric_id])
          ELSE <<>>) \o Gather(nodes, Tail(urls), metric_id)

MetricIds(nodes) == UNION {DOMAIN nodes[u] : u \in DOMAIN nodes}

\* Stats counting the distinct values
StatsCountDistinct(values) ==
    [values |-> sorted(values),
     count |-> Cardinality({values[n] : n \in 1..Len(values)}),
     min |-> min(values),
     max |-> max(values),
     mean |-> mean(values),
     median |-> median(values)]

\* Stats keeping the values in the order of the children
StatsUnsorted(values) ==
    [values |-> values,
     count |-> Len(values),
     min |-> min(values),
     max |-> max(values),
     mean |-> mean(values),
     median |-> median(values)]

\* Lines 217-224
Stats(values) ==
    [values |-> sorted(values),
     count |-> Len(values),
     min |-> min(values),
     max |-> max(values),
     mean |-> mean(values),
     median |-> median(values)]

\* The metric ids for which min(values) raises ValueError: no observation
EmptyIds(node) ==
    {id \in MetricIds(node.nodes) :
        Gather(node.nodes, Children(DOMAIN node.nodes), id) = <<>>}

\* node['metrics'] after the loop of lines 216-224 has stored the ids of done
Store(node, done) ==
    [id \in (DOMAIN node.metrics) \cup done |->
        IF id \in done
        THEN Stats(Gather(node.nodes, Children(DOMAIN node.nodes), id))
        ELSE node.metrics[id]]

\* node['metrics'] after aggregate(node) has returned
aggregate(node) == Store(node, MetricIds(node.nodes))

-----------------------------------------------------------------------------
(* MetricCollector.summarize *)

StatKeys == {"values", "count", "min", "max", "mean", "median"}

RowKey(metric, k) == metric \o "_" \o k

\* summarize without the test k != 'values'
summarizeWithValues(name, date, node) ==
    LET cols == (DOMAIN node.metrics) \X StatKeys
        keys == {"name", "date"} \cup {RowKey(c[1], c[2]) : c \in cols}
    IN  [key \in keys |->
            IF key = "name" THEN name
            ELSE IF key = "date" THEN date
            ELSE LET c == CHOOSE c \in cols : RowKey(c[1], c[2]) = key
                 IN  node.metrics[c[1]][c[2]]]

\* repo_metrics of lines 227-234
summarize(name, date, node) ==
    LET cols == {<<metric, k>> \in (DOMAIN node.metrics) \X StatKeys : k # "values"}
        keys == {"name", "date"} \cup {RowKey(c[1], c[2]) : c \in cols}
    IN  [key \in keys |->
            IF key = "name" THEN name
            ELSE IF key = "date" THEN date
            ELSE LET c == CHOOSE c \in cols : RowKey(c[1], c[2]) = key
                 IN  node.metrics[c[1]][c[2]]]

-----------------------------------------------------------------------------
(* MetricCollector.output_google_sheet; the order of the columns is left out *)

SheetName(reporting_period) ==
    IF reporting_period = WEEKLY THEN GOOGLE_SHEET_NAME_WEEKLY
    ELSE GOOGLE_SHEET_NAME_DAILY

RECURSIVE Header(_, _)
Header(header, rows) ==
    IF rows = <<>> THEN header
    ELSE Header(header \cup DOMAIN Head(rows), Tail(rows))

output_google_sheet(reporting_period, rows) ==
    [name |-> SheetName(reporting_period),
     header |-> Header({}, rows),
     values |-> rows]

-----------------------------------------------------------------------------
(* MetricCollector.get_series_for_datadog *)

RECURSIVE Series(_, _, _)
Series(repo_node, key, pairs) ==
    IF pairs = <<>> THEN <<>>
    ELSE LET metric_name == Head(pairs)[1]
             metric_type == Head(pairs)[2]
         IN  (IF metric_name \in DOMAIN repo_node.metrics
              THEN << [metric |-> "library." \o metric_name \o "." \o metric_type,
                       type |-> "gauge",
                       point |-> repo_node.metrics[metric_name][metric_type],
                       tags |-> key] >>
              ELSE <<>>) \o Series(repo_node, key, Tail(pairs))

get_series_for_datadog(repo_node, key) == Series(repo_node, key, DATADOG_METRICS)


-----------------------------------------------------------------------------
(* The Metric Tree: global_node['nodes'][org]['nodes'][name], with the      *)
(* order of the keys of the two dicts                                       *)

base_type == [nodes |-> EmptyDict, metrics |-> EmptyDict]

EmptyTree == [orgs |-> <<>>, names |-> EmptyDict, node |-> EmptyDict]

InSeq(x, s) == \E n \in 1..Len(s) : s[n] = x

\* Lines 64-65: the two defaultdict lookups
Lookup(t, repo) ==
    LET orgs == IF InSeq(repo.org, t.orgs) THEN t.orgs ELSE Append(t.orgs, repo.org)
        old == IF repo.org \in DOMAIN t.names THEN t.names[repo.org] ELSE <<>>
        names == IF InSeq(repo.name, old) THEN old ELSE Append(old, repo.name)
        key == <<repo.org, repo.name>>
    IN  [orgs |-> orgs,
         names |-> Put(t.names, repo.org, names),
         node |-> IF key \in DOMAIN t.node THEN t.node ELSE Put(t.node, key, base_type)]

\* Lines 75-78 and 89-92: the repository nodes in the order of the two loops
RECURSIVE KeysOf(_, _)
KeysOf(org, names) ==
    IF names = <<>> THEN <<>> ELSE <<<<org, Head(names)>>>> \o KeysOf(org, Tail(names))

RECURSIVE NodeOrderFrom(_, _)
NodeOrderFrom(t, orgs) ==
    IF orgs = <<>> THEN <<>>
    ELSE KeysOf(Head(orgs), t.names[Head(orgs)]) \o NodeOrderFrom(t, Tail(orgs))

NodeOrder(t) == NodeOrderFrom(t, t.orgs)

RepoName(key) == "https://github.com/" \o key[1] \o "/" \o key[2]

-----------------------------------------------------------------------------
(* MetricCollector.run *)

\* The orders in which the set {'', '_pr'} can be iterated
ExtOrders == {<<"", "_pr">>, <<"_pr", "">>}

\* Lines 63-67: one iteration of the first loop.  An exception of
\* process_repo leaves run().
ProcessRepo ==
    /\ pc = "collect"
    /\ i <= Len(repos)
    /\ \E order \in ExtOrders :
        LET repo == repos[i]
            key == <<repo.org, repo.name>>
            t == Lookup(tree, repo)
            r == process_repo(t.node[key].nodes, untagged_issues,
                              fetched[key], window, order)
        IN  /\ tree' = [t EXCEPT !.node[key].nodes = r.nodes]
            /\ untagged_issues' = r.untagged
            /\ IF r.raised
               THEN /\ pc' = "KeyError"
                    /\ UNCHANGED <<i, trace>>
               ELSE /\ i' = i + 1
                    /\ trace' = Append(trace, <<"process_repo", key>>)
                    /\ UNCHANGED pc
    /\ UNCHANGED <<repos, window, fetched, printed, all_metrics, sheet, datadog>>

\* Lines 69-73
PrintUntagged ==
    /\ pc = "collect"
    /\ i > Len(repos)
    /\ printed' = untagged_issues
    /\ pc' = "aggregate"
    /\ i' = 1
    /\ UNCHANGED <<repos, window, fetched, tree, untagged_issues, all_metrics,
                   sheet, datadog, trace>>

\* Line 79.  When an id has no observation, aggregate raises at that id,
\* having stored the ids that come before it in the dict; that order is the
\* event processor's, so any set of the other ids may have been stored.
Aggregate ==
    /\ pc = "aggregate"
    /\ i <= Len(NodeOrder(tree))
    /\ LET key == NodeOrder(tree)[i]
           node == tree.node[key]
       IN  IF EmptyIds(node) # {}
           THEN /\ \E done \in SUBSET (MetricIds(node.nodes) \ EmptyIds(node)) :
                    tree' = [tree EXCEPT !.node[key].metrics = Store(node, done)]
                /\ pc' = "ValueError"
                /\ UNCHANGED trace
           ELSE /\ tree' = [tree EXCEPT !.node[key].metrics = aggregate(tree.node[key])]
                /\ pc' = "summarize"
                /\ trace' = Append(trace, <<"aggregate", key>>)
    /\ UNCHANGED <<repos, window, fetched, i, untagged_issues, printed, all_metrics,
                   sheet, datadog>>

\* Lines 80-81
Summarize ==
    /\ pc = "summarize"
    /\ LET key == NodeOrder(tree)[i]
       IN  /\ all_metrics' = Append(all_metrics,
                                    summarize(RepoName(key), window.now, tree.node[key]))
           /\ trace' = Append(trace, <<"summarize", key>>)
    /\ pc' = "aggregate"
    /\ i' = i + 1
    /\ UNCHANGED <<repos, window, fetched, tree, untagged_issues, printed, sheet, datadog>>

\* OutputGoogleSheet inside the loop of lines 75-81
OutputGoogleSheetEarly ==
    /\ pc = "aggregate"
    /\ sheet' = output_google_sheet(window.reporting_period, all_metrics)
    /\ trace' = Append(trace, <<"output_google_sheet", <<>>>>)
    /\ pc' = "datadog"
    /\ UNCHANGED <<repos, window, fetched, i, tree, untagged_issues, printed,
                   all_metrics, datadog>>

\* Line 84
OutputGoogleSheet ==
    /\ pc = "aggregate"
    /\ i > Len(NodeOrder(tree))
    /\ sheet' = output_google_sheet(window.reporting_period, all_metrics)
    /\ trace' = Append(trace, <<"output_google_sheet", <<>>>>)
    /\ pc' = "datadog"
    /\ UNCHANGED <<repos, window, fetched, i, tree, untagged_issues, printed,
                   all_metrics, datadog>>

RECURSIVE AllSeries(_, _)
AllSeries(t, keys) ==
    IF keys = <<>> THEN <<>>
    ELSE get_series_for_datadog(t.node[Head(keys)], Head(keys)) \o AllSeries(t, Tail(keys))

\* Lines 87-99
SubmitMetrics ==
    /\ pc = "datadog"
    /\ datadog' = AllSeries(tree, NodeOrder(tree))
    /\ trace' = Append(trace, <<"submit_metrics", <<>>>>)
    /\ pc' = "done"
    /\ UNCHANGED <<repos, window, fetched, i, tree, untagged_issues, printed,
                   all_metrics, sheet>>

-----------------------------------------------------------------------------
(* The runs that are explored.  Day 1 is the stale date; the run ends on   *)
(* day EndDay, and starts on that day (daily) or one day before (weekly).  *)

Today == STALE_DAYS + 1
StaleDay == Today - STALE_DAYS
EndDay == MaxDate - 1

Windows ==
    { [start_date |-> EndDay, end_date |-> EndDay, now |-> Today,
       reporting_period |-> DAILY],
      [start_date |-> EndDay - 1, end_date |-> EndDay, now |-> Today,
       reporting_period |-> WEEKLY] }

RepoA == [org |-> "twilio", name |-> "twilio-python"]
RepoB == [org |-> "sendgrid", name |-> "sendgrid-python"]
RepoKeys == {<<RepoA.org, RepoA.name>>, <<RepoB.org, RepoB.name>>}

\* An issue without its url: what the event processor reports of it
Base ==
    [kind |-> "issues", author |-> "user", created_at |-> EndDay - 1,
     closed |-> TRUE, category |-> "bug", status |-> "fixed",
     first_admin_comment |-> TRUE, events |-> <<>>, metrics |-> EmptyDict]

\* Lists of at most n observations, each the least or the greatest value
Lists(n) == UNION {[1..m -> {1, MaxVal}] : m \in 0..n}

\* Admission: author and creation date vary; the issue is open and untagged
FilterShapes ==
    { [Base EXCEPT !.kind = k, !.author = a, !.created_at = d, !.closed = FALSE,
                   !.category = "",
                   !.metrics = "time_awaiting_resolution" :> List(<<1>>)] :
        k \in {"issues", "pull"}, a \in {"admin", "user"}, d \in 0..MaxDate }

\* Open items: creation date and timeline of an issue, last event stale or not
Activity ==
    { <<StaleDay, <<>>>>,
      <<EndDay, <<>>>>,
      <<EndDay, <<[createdAt |-> StaleDay + 1], [createdAt |-> StaleDay]>>>>,
      <<StaleDay, <<[commit |-> [committedDate |-> StaleDay + 1]]>>>> }

OpenShapes ==
    { [Base EXCEPT !.kind = k, !.closed = c, !.created_at = x[1], !.events = x[2]] :
        k \in {"issues", "pull"}, c \in BOOLEAN, x \in Activity }

\* Categorization of time_to_close and time_awaiting_resolution
CloseProfiles ==
    { ("time_to_close" :> List(<<2>>)) @@ ("time_to_contact" :> List(<<1>>)),
      "time_awaiting_resolution" :> List(<<1>>),
      ("time_to_close" :> List(<<2>>)) @@ ("time_to_contact" :> List(<<1>>))
          @@ ("time_awaiting_resolution" :> List(<<1>>)) }

CloseShapes ==
    { [Base EXCEPT !.category = c, !.status = x[1], !.first_admin_comment = x[2],
                   !.metrics = m] :
        c \in {"", "bug"},
        x \in {<<"fixed", TRUE>>, <<"duplicate", TRUE>>, <<"fixed", FALSE>>},
        m \in CloseProfiles }

\* Pull requests with and without an administrator's comment
PrProfiles ==
    { ("time_to_close_pr" :> List(<<2>>)) @@ ("time_to_contact_pr" :> List(<<1>>)),
      "time_to_close_pr" :> List(<<2>>),
      "time_to_contact_pr" :> List(<<1>>) }

PrShapes ==
    { [Base EXCEPT !.kind = "pull", !.first_admin_comment = f, !.metrics = m] :
        f \in BOOLEAN, m \in PrProfiles }

\* The operands of time_to_resolve, in either family or in both
Family(ext, respond) ==
    ("time_to_contact" \o ext :> List(<<MaxVal>>))
        @@ ("time_to_close" \o ext :> List(<<1, MaxVal>>))
        @@ (IF respond THEN "time_to_respond" \o ext :> List(<<1, 1>>) ELSE EmptyDict)

ResolveShapes ==
    { [Base EXCEPT !.first_admin_comment = f, !.category = x[1], !.status = x[2],
                   !.metrics = Family(ext, respond)] :
        f \in BOOLEAN, x \in {<<"bug", "fixed">>, <<"", "duplicate">>},
        ext \in {"", "_pr"}, respond \in BOOLEAN }
    \cup { [Base EXCEPT !.metrics = Family("", TRUE) @@ Family("_pr", FALSE)] }

\* Observations to aggregate: lists of every length, and scalars of open items
AggregateShapes ==
    { [Base EXCEPT !.metrics = "time_to_contact" :> List(l)] : l \in Lists(MaxObs) }
    \cup { [Base EXCEPT !.closed = FALSE, !.created_at = EndDay,
                        !.metrics = "time_to_contact" :> List(l)] : l \in Lists(1) }

\* Several repositories: a sound issue, one that violates the contract of the
\* event processor, and an open untagged one
RunShapes ==
    { [Base EXCEPT !.metrics = ("time_to_close" :> List(<<2>>))
                                   @@ ("time_to_contact" :> List(<<1>>))],
      [Base EXCEPT !.metrics = "time_to_close" :> List(<<2>>)],
      [Base EXCEPT !.closed = FALSE, !.category = "",
                   !.metrics = "time_awaiting_resolution" :> List(<<1>>)] }

\* get_repo_issues: the n-th issue of a repository has the url of number n
Url(key, kind, n) == [repo |-> key, kind |-> kind, number |-> n]

Issues(key, shapes) ==
    [n \in DOMAIN shapes |->
        [url |-> Url(key, shapes[n].kind, n),
         author |-> shapes[n].author,
         created_at |-> shapes[n].created_at,
         closed |-> shapes[n].closed,
         category |-> shapes[n].category,
         status |-> shapes[n].status,
         first_admin_comment |-> shapes[n].first_admin_comment,
         events |-> shapes[n].events,
         metrics |-> shapes[n].metrics]]

Families == {FilterShapes, OpenShapes, CloseShapes, PrShapes, ResolveShapes,
             AggregateShapes}

KeyA == <<RepoA.org, RepoA.name>>
KeyB == <<RepoB.org, RepoB.name>>

\* One repository, its issues drawn from one family
SingleInput ==
    \E S \in Families, m \in 0..MaxIssues :
        \E l \in [1..m -> S] :
            /\ repos = <<RepoA>>
            /\ fetched = (KeyA :> Issues(KeyA, l)) @@ (KeyB :> <<>>)

\* Any selection of the repositories, in any order
RunInput ==
    \E r \in {<<>>, <<RepoA>>, <<RepoB>>, <<RepoA, RepoB>>, <<RepoB, RepoA>>} :
        \E ma \in (IF InSeq(RepoA, r) THEN 0..MaxIssues ELSE {0}),
           mb \in (IF InSeq(RepoB, r) THEN 0..MaxIssues ELSE {0}) :
            \E a \in [1..ma -> RunShapes], b \in [1..mb -> RunShapes] :
                /\ repos = r
                /\ fetched = (KeyA :> Issues(KeyA, a)) @@ (KeyB :> Issues(KeyB, b))

Init ==
    /\ window \in Windows
    /\ (SingleInput \/ RunInput)
    /\ pc = "collect"
    /\ i = 1
    /\ tree = EmptyTree
    /\ untagged_issues = <<>>
    /\ printed = <<>>
    /\ all_metrics = <<>>
    /\ sheet = [name |-> "", header |-> {}, values |-> <<>>]
    /\ datadog = <<>>
    /\ trace = <<>>


Next ==
    \/ ProcessRepo
    \/ PrintUntagged
    \/ Aggregate
    \/ Summarize
    \/ OutputGoogleSheet
    \/ SubmitMetrics

Spec == Init /\ [][Next]_vars

-----------------------------------------------------------------------------
(* Vocabulary of the properties *)

Key(repo) == <<repo.org, repo.name>>
Nodes(key) == tree.node[key].nodes
IssueOf(url) == fetched[url.repo][url.number]
Returned(call, key) == \E p \in 1..Len(trace) : trace[p] = <<call, key>>
Count(x, s) == Cardinality({n \in 1..Len(s) : s[n] = x})
StaleCutoff == window.now - STALE_DAYS

\* The issue passes the admission filter
InRange(issue) ==
    /\ issue.author \notin ADMINS
    /\ StaleCutoff <= issue.created_at
    /\ issue.created_at <= window.end_date

\* The date of the most recent timeline event, or created_at without events
EventDate(e) == IF "createdAt" \in DOMAIN e THEN e.createdAt ELSE e.commit.committedDate
LastEventDate(issue) ==
    IF issue.events = <<>> THEN issue.created_at
    ELSE EventDate(issue.events[Len(issue.events)])

StillOpen(issue) == ~issue.closed /\ LastEventDate(issue) > StaleCutoff

\* C1: every issue with a node, and every issue of the untagged list, has a
\* non-administrator author and stale_cutoff <= created_at <= end_date; the
\* running counter stored on an open item counts admitted issues only.
C1_AdmissionFilter ==
    /\ \A key \in DOMAIN tree.node : \A url \in DOMAIN Nodes(key) :
        /\ InRange(IssueOf(url))
        /\ \A c \in {"issue_count", "pr_count"} :
            c \in DOMAIN Nodes(key)[url] =>
                Nodes(key)[url][c].v[1] <=
                    Cardinality({n \in 1..url.number : InRange(fetched[key][n])})
    /\ \A n \in 1..Len(untagged_issues) : InRange(IssueOf(untagged_issues[n]))

\* An open untagged issue follows a skipped one and is the first open item
C1_Witness ==
    \E key \in DOMAIN tree.node : \E url \in DOMAIN Nodes(key) :
        /\ Returned("process_repo", key)
        /\ \E n \in 1..(url.number - 1) :
            /\ ~InRange(fetched[key][n])
            /\ ~fetched[key][n].closed
            /\ fetched[key][n].created_at < StaleCutoff
        /\ "issue_count" \in DOMAIN Nodes(key)[url]
        /\ Nodes(key)[url]["issue_count"].v = <<1>>
        /\ Count(url, untagged_issues) = 1

\* C2 (as claimed): at the end of the run an issue without category whose
\* metrics held time_to_close or time_awaiting_resolution is on the untagged
\* list exactly once and its node has no time_to_close_<category> and no
\* time_awaiting_resolution_<category> key.
C2_UntaggedExactlyOnce ==
    pc = "done" =>
        \A key \in DOMAIN tree.node : \A url \in DOMAIN Nodes(key) :
            (/\ IssueOf(url).category = ""
             /\ \E id \in {"time_to_close", "time_awaiting_resolution"} :
                    id \in DOMAIN IssueOf(url).metrics)
            => /\ Count(url, printed) = 1
               /\ \A c \in {"", "bug"} :
                    /\ "time_to_close_" \o c \notin DOMAIN Nodes(key)[url]
                    /\ "time_awaiting_resolution_" \o c \notin DOMAIN Nodes(key)[url]

\* C3 (as claimed): the node of an issue with first_admin_comment = false has
\* no time_to_close_pr key, whenever the issue was created.
C3_NoPrCloseWithoutAdmin ==
    \A key \in DOMAIN tree.node : \A url \in DOMAIN Nodes(key) :
        ~IssueOf(url).first_admin_comment =>
            "time_to_close_pr" \notin DOMAIN Nodes(key)[url]

\* C4 (as claimed): when process_repo raises for one repository, every other
\* repository of the run has its row in the spreadsheet.
C4_FaultIsolated ==
    pc = "KeyError" =>
        \A n \in 1..Len(repos) :
            n # i => \E r \in 1..Len(sheet.values) :
                        sheet.values[r]["name"] = RepoName(Key(repos[n]))

\* The children of a repository that hold at least one observation of id
Contributors(key, id) ==
    {url \in DOMAIN Nodes(key) :
        id \in DOMAIN Nodes(key)[url] /\ Nodes(key)[url][id].v # <<>>}

RECURSIVE SumLen(_, _, _)
SumLen(key, id, urls) ==
    IF urls = {} THEN 0
    ELSE LET u == CHOOSE x \in urls : TRUE
         IN  Len(Nodes(key)[u][id].v) + SumLen(key, id, urls \ {u})

\* C5 (as claimed): count is the number of children with an observation.
C5_CountIsChildren ==
    \A key \in DOMAIN tree.node : \A id \in DOMAIN tree.node[key].metrics :
        tree.node[key].metrics[id].count = Cardinality(Contributors(key, id))

\* C5 (amended): count is the number of observations of the children: one for
\* a scalar, the length of a list.
C5_CountIsObservations ==
    \A key \in DOMAIN tree.node : \A id \in DOMAIN tree.node[key].metrics :
        tree.node[key].metrics[id].count = SumLen(key, id, Contributors(key, id))

\* Two children contribute, one of them a list of several values
C5_Witness ==
    \E key \in DOMAIN tree.node : \E id \in DOMAIN tree.node[key].metrics :
        /\ Returned("aggregate", key)
        /\ Cardinality(Contributors(key, id)) = 2
        /\ \E url \in Contributors(key, id) : Len(Nodes(key)[url][id].v) > 1
        /\ tree.node[key].metrics[id].count > 2

\* C6: an issue's node holds issue_count and time_open_issue (pr_count and
\* time_open_pr for a pull-request url) exactly when the issue is not closed
\* and its last update is after the stale cutoff; after aggregate the count of
\* issue_count (pr_count) is the number of those issues (pull requests), the
\* id being absent when there is none.
OpenItems(key, kind) ==
    {url \in DOMAIN Nodes(key) : url.kind = kind /\ StillOpen(IssueOf(url))}

C6_OpenItems ==
    /\ \A key \in DOMAIN tree.node : \A url \in DOMAIN Nodes(key) :
        LET m == Nodes(key)[url]
        IN  /\ \A id \in {"issue_count", "time_open_issue"} :
                (id \in DOMAIN m) = (url \in OpenItems(key, "issues"))
            /\ \A id \in {"pr_count", "time_open_pr"} :
                (id \in DOMAIN m) = (url \in OpenItems(key, "pull"))
    /\ \A key \in DOMAIN tree.node :
        Returned("aggregate", key) =>
            \A x \in {<<"issue_count", "issues">>, <<"pr_count", "pull">>} :
                IF OpenItems(key, x[2]) = {}
                THEN x[1] \notin DOMAIN tree.node[key].metrics
                ELSE /\ x[1] \in DOMAIN tree.node[key].metrics
                     /\ tree.node[key].metrics[x[1]].count =
                            Cardinality(OpenItems(key, x[2]))

\* Of two pull requests one is open and was created before start_date, the
\* other is closed or stale
C6_Witness ==
    \E key \in DOMAIN tree.node :
        /\ Returned("aggregate", key)
        /\ \E url \in OpenItems(key, "pull") :
                IssueOf(url).created_at < window.start_date
        /\ \E url \in DOMAIN Nodes(key) :
                url.kind = "pull" /\ url \notin OpenItems(key, "pull")
        /\ tree.node[key].metrics["pr_count"].count = 1

\* C7: an aggregated metric has a non-empty ascending values sequence, count
\* its length, min its first and max its last element, mean and median those
\* of values; an id without observation in any child is not on the node.
Ascending(s) == \A n \in 1..(Len(s) - 1) : s[n] <= s[n + 1]

C7_StatsConsistent ==
    \A key \in DOMAIN tree.node : \A id \in DOMAIN tree.node[key].metrics :
        LET a == tree.node[key].metrics[id]
        IN  /\ a.values # <<>>
            /\ Ascending(a.values)
            /\ a.count = Len(a.values)
            /\ a.min = a.values[1]
            /\ a.max = a.values[Len(a.values)]
            /\ a.mean = Ratio(sum(a.values), Len(a.values))
            /\ a.median =
                IF Len(a.values) % 2 = 1
                THEN Ratio(a.values[(Len(a.values) + 1) \div 2], 1)
                ELSE Ratio(a.values[Len(a.values) \div 2]
                           + a.values[(Len(a.values) \div 2) + 1], 2)
            /\ Contributors(key, id) # {}

\* The observations reach aggregate in descending order, and a child holds an
\* id without any observation of it
C7_Witness ==
    \E key \in DOMAIN tree.node : \E id \in DOMAIN tree.node[key].metrics :
        /\ Returned("aggregate", key)
        /\ \E url \in DOMAIN Nodes(key) :
            /\ id \in DOMAIN Nodes(key)[url]
            /\ Len(Nodes(key)[url][id].v) > 1
            /\ ~Ascending(Nodes(key)[url][id].v)
        /\ \E url \in DOMAIN Nodes(key) :
            /\ id \in DOMAIN Nodes(key)[url]
            /\ Nodes(key)[url][id].v = <<>>
        /\ tree.node[key].metrics[id].min < tree.node[key].metrics[id].max

\* C8: every call of summarize has appended one record; the record of a
\* repository holds name, date and, for every metric id of the node and every
\* statistic but values, the field <metric>_<stat> with the stored value, and
\* no other field.
Summarized == {p \in 1..Len(trace) : trace[p][1] = "summarize"}

C8_FlatRecord ==
    /\ Len(all_metrics) = Cardinality(Summarized)
    /\ \A n \in 1..Len(all_metrics) :
        LET key == NodeOrder(tree)[n]
            m == tree.node[key].metrics
            row == all_metrics[n]
            stats == {"count", "min", "max", "mean", "median"}
        IN  /\ Returned("summarize", key)
            /\ DOMAIN row = {"name", "date"}
                    \cup {id \o "_" \o k : id \in DOMAIN m, k \in stats}
            /\ row["name"] = RepoName(key)
            /\ row["date"] = window.now
            /\ \A id \in DOMAIN m :
                /\ row[id \o "_count"] = m[id].count
                /\ row[id \o "_min"] = m[id].min
                /\ row[id \o "_max"] = m[id].max
                /\ row[id \o "_mean"] = m[id].mean
                /\ row[id \o "_median"] = m[id].median

\* The record of a repository with two metric ids
C8_Witness ==
    \E n \in 1..Len(all_metrics) :
        /\ Cardinality(DOMAIN tree.node[NodeOrder(tree)[n]].metrics) >= 2
        /\ "time_to_contact_median" \in DOMAIN all_metrics[n]
        /\ all_metrics[n]["time_to_contact_count"] = 2

\* C9: process_repo has returned for every repository of the run before any
\* aggregate or summarize; every repository node has been aggregated and
\* summarized, once each, before anything goes to the spreadsheet or to
\* Datadog; no node is aggregated or summarized twice.
Calls(call, key, p) == {q \in 1..(p - 1) : trace[q] = <<call, key>>}

C9_PhasesSequential ==
    /\ \A p \in 1..Len(trace) :
        /\ trace[p][1] \in {"aggregate", "summarize"} =>
            /\ \A n \in 1..Len(repos) :
                    Calls("process_repo", Key(repos[n]), p) # {}
            /\ Calls(trace[p][1], trace[p][2], p) = {}
        /\ trace[p][1] \in {"output_google_sheet", "submit_metrics"} =>
            \A n \in 1..Len(repos) :
                /\ Cardinality(Calls("aggregate", Key(repos[n]), p)) = 1
                /\ Cardinality(Calls("summarize", Key(repos[n]), p)) = 1
    /\ pc = "collect" =>
        /\ all_metrics = <<>>
        /\ \A key \in DOMAIN tree.node : tree.node[key].metrics = EmptyDict
    /\ (sheet.values # <<>> \/ datadog # <<>>) =>
        /\ pc \in {"datadog", "done"}
        /\ Len(all_metrics) = Len(repos)

\* Two repositories have been collected, rolled up and published
C9_Witness ==
    /\ pc = "done"
    /\ Len(repos) = 2
    /\ Len(sheet.values) = 2
    /\ datadog # <<>>

\* C10: the node of an issue created on or after start_date holds
\* time_to_resolve exactly when first_admin_comment is true and time_to_close
\* or time_to_close_pr was present; the value is the scalar sum of contact,
\* respond (nothing when absent) and close of a family that was present.
Resolve(im, ext) ==
    sum(im["time_to_contact" \o ext].v)
    + (IF "time_to_respond" \o ext \in DOMAIN im
       THEN sum(im["time_to_respond" \o ext].v) ELSE 0)
    + sum(im["time_to_close" \o ext].v)

C10_TimeToResolve ==
    \A key \in DOMAIN tree.node : \A url \in DOMAIN Nodes(key) :
        LET issue == IssueOf(url)
            im == issue.metrics
            m == Nodes(key)[url]
            exts == {ext \in {"", "_pr"} : "time_to_close" \o ext \in DOMAIN im}
        IN  issue.created_at >= window.start_date =>
                /\ ("time_to_resolve" \in DOMAIN m)
                        = (issue.first_admin_comment /\ exts # {})
                /\ "time_to_resolve" \in DOMAIN m =>
                    /\ m["time_to_resolve"].kind = "scalar"
                    /\ \E ext \in exts : m["time_to_resolve"].v = <<Resolve(im, ext)>>

\* An untagged duplicate whose time_to_close was removed holds the sum of its
\* three operands
C10_Witness ==
    \E key \in DOMAIN tree.node : \E url \in DOMAIN Nodes(key) :
        /\ IssueOf(url).created_at >= window.start_date
        /\ IssueOf(url).category = ""
        /\ IssueOf(url).status = "duplicate"
        /\ "time_to_respond" \in DOMAIN IssueOf(url).metrics
        /\ "time_to_close" \notin DOMAIN Nodes(key)[url]
        /\ "time_to_resolve" \in DOMAIN Nodes(key)[url]
        /\ Nodes(key)[url]["time_to_resolve"].v = <<Resolve(IssueOf(url).metrics, "")>>


=============================================================================
